---- MODULE Spec2Model ----
(***************************************************************************)
(* A model of src/agent_registry.py: the AgentRegistry class (a dict of    *)
(* named agent instances guarded by an _initialized flag), the module-level*)
(* _registry_instance handle and the convenience accessors.                *)
(*                                                                         *)
(* The three agent constructors, os.getenv and log_experiment are external *)
(* collaborators: each call of one of them may return or raise, which the  *)
(* actions draw as inputs.                                                 *)
(***************************************************************************)
EXTENDS Integers, Sequences, FiniteSets, TLC

VARIABLES
    heap,               \* the AgentRegistry objects created so far; a reference is an index
    registry_instance,  \* the module global _registry_instance: <<>> is None, <<r>> a reference
    environ,            \* os.environ restricted to GOOGLE_API_KEY: <<>> unset, <<v>> set to v
    nextId,             \* number of agent objects constructed so far (object identity)
    lastOp              \* what the last call did and gave back to its caller

vars == <<heap, registry_instance, environ, nextId, lastOp>>

\* ---------------------------------------------------------------- bounds

\* At most this many AgentRegistry objects are created.
MaxRegistries == 1

\* At most this many agent objects are constructed.
MaxInstances == 6

\* ---------------------------------------------------------------- strings

\* Strings that are lower-cased are sequences of ASCII codes.
auditor == <<97, 117, 100, 105, 116, 111, 114>>
fixer == <<102, 105, 120, 101, 114>>
judge == <<106, 117, 100, 103, 101>>
AUDITOR == <<65, 85, 68, 73, 84, 79, 82>>
Auditor == <<65, 117, 100, 105, 116, 111, 114>>
FIXER == <<70, 73, 88, 69, 82>>
Judge == <<74, 117, 100, 103, 101>>
nonexistent == <<110, 111, 110, 101>>
audit == <<97, 117, 100, 105, 116>>

\* The names callers look up.
LookupNames == {auditor, fixer, judge, AUDITOR, Auditor, FIXER, Judge, nonexistent, audit, <<>>}

\* lower left out: the name is looked up as given.
lower_as_given(s) == s

\* str.lower() on one ASCII character, and on a string.
LowerChar(c) == IF c >= 65 /\ c <= 90 THEN c + 32 ELSE c

lower(s) == [i \in 1..Len(s) |-> LowerChar(s[i])]

\* ---------------------------------------------------------------- dict

\* Python's None as a value of the mapping's value type.
None == [cls |-> "NoneType", id |-> 0]

\* A dict is the sequence of its items in insertion order.
DictHas(d, k) == \E i \in 1..Len(d) : d[i].key = k

DictIndex(d, k) == CHOOSE i \in 1..Len(d) : d[i].key = k

\* d.get(k)
DictGet(d, k) == IF DictHas(d, k) THEN d[DictIndex(d, k)].val ELSE None

\* DictSet as a list of pairs would do it: the pair always goes last, also
\* when the key is already there.
DictSet_append(d, k, v) == Append(d, [key |-> k, val |-> v])

\* d[k] = v: an existing key keeps its position, a new key goes last.
DictSet(d, k, v) ==
    IF DictHas(d, k)
    THEN [d EXCEPT ![DictIndex(d, k)] = [key |-> k, val |-> v]]
    ELSE Append(d, [key |-> k, val |-> v])

\* list(d.keys())
DictKeys(d) == [i \in 1..Len(d) |-> d[i].key]

\* ---------------------------------------------------------------- AgentRegistry

\* The constructors initialize() calls, in the order it calls them, and the
\* key it stores each instance under.
AgentClasses == <<"AuditorAgent", "FixerAgent", "JudgeAgent">>

AgentKeys == <<auditor, fixer, judge>>

\* AgentRegistry.__init__
NewAgentRegistry == [agents |-> <<>>, initialized |-> FALSE]

\* ApiKeyMissing as `api_key is None` would do it: an empty value passes.
ApiKeyMissing_unset_only(env) == env = <<>>

\* `not api_key`, api_key = os.getenv("GOOGLE_API_KEY"): unset (None) or empty.
ApiKeyMissing(env) == env = <<>> \/ env[1] = ""

\* A call of a collaborator: os.getenv, a constructor, or log_experiment with
\* its action argument; `raised` tells whether the call raised.
Called(fn, action, raised) == [fn |-> fn, action |-> action, raised |-> raised]

\* The three constructions of initialize(): the k-th stores a new instance
\* under AgentKeys[k], unless its constructor raises (ctorFail = k), which
\* ends the sequence there. `made` counts the instances constructed.
RECURSIVE LoadAgents(_, _, _, _, _)
LoadAgents(agents, k, ctorFail, nid, made) ==
    IF k > Len(AgentClasses)
    THEN [agents |-> agents, exc |-> "", made |-> made, calls |-> <<>>]
    ELSE IF ctorFail = k
    THEN [agents |-> agents, exc |-> AgentClasses[k] \o "Error", made |-> made,
          calls |-> <<Called(AgentClasses[k], "", TRUE)>>]
    ELSE LET rest == LoadAgents(
                         DictSet(agents, AgentKeys[k],
                                 [cls |-> AgentClasses[k], id |-> nid + made + 1]),
                         k + 1, ctorFail, nid, made + 1)
         IN  [rest EXCEPT !.calls = <<Called(AgentClasses[k], "", FALSE)>> \o @]

\* The try block of initialize().
InitializeTry(self, env, ctorFail, logOk, nid) ==
    IF ApiKeyMissing(env)
    THEN [self |-> self, exc |-> "ValueError", made |-> 0,
          calls |-> <<Called("getenv", "", FALSE)>>]
    ELSE LET loaded == LoadAgents(self.agents, 1, ctorFail, nid, 0)
         IN  IF loaded.exc # ""
             THEN [self |-> [self EXCEPT !.agents = loaded.agents],
                   exc |-> loaded.exc, made |-> loaded.made,
                   calls |-> <<Called("getenv", "", FALSE)>> \o loaded.calls]
             ELSE [self |-> [agents |-> loaded.agents, initialized |-> TRUE],
                   exc |-> IF logOk THEN "" ELSE "LogError",
                   made |-> loaded.made,
                   calls |-> <<Called("getenv", "", FALSE)>> \o loaded.calls
                             \o <<Called("log_experiment", "ANALYSIS", ~logOk)>>]

\* InitializeExcept with a rollback: the agents stored so far are dropped
\* before the failure propagates.
InitializeExcept_rollback(tried, logOk) ==
    IF tried.exc = ""
    THEN tried
    ELSE [self |-> [tried.self EXCEPT !.agents = <<>>],
          exc |-> IF logOk THEN tried.exc ELSE "LogError",
          made |-> tried.made,
          calls |-> tried.calls \o <<Called("log_experiment", "DEBUG", ~logOk)>>]

\* The except block of initialize(): log the failure, then re-raise; an
\* exception of the log call replaces the one being handled.
InitializeExcept(tried, logOk) ==
    IF tried.exc = ""
    THEN tried
    ELSE [tried EXCEPT !.exc = IF logOk THEN @ ELSE "LogError",
                       !.calls = @ \o <<Called("log_experiment", "DEBUG", ~logOk)>>]

\* initialize without the already-initialized check.
initialize_no_skip(self, env, ctorFail, logOk1, logOk2, nid) ==
    InitializeExcept(InitializeTry(self, env, ctorFail, logOk1, nid), logOk2)

\* AgentRegistry.initialize
initialize(self, env, ctorFail, logOk1, logOk2, nid) ==
    IF self.initialized
    THEN [self |-> self, exc |-> "", made |-> 0, calls |-> <<>>]
    ELSE InitializeExcept(InitializeTry(self, env, ctorFail, logOk1, nid), logOk2)

\* get_agent with the precondition tested on the mapping instead of the flag.
get_agent_mapping_check(self, agent_name) ==
    IF self.agents = <<>>
    THEN [exc |-> "RuntimeError", ret |-> None]
    ELSE [exc |-> "", ret |-> DictGet(self.agents, lower(agent_name))]

\* get_agent with self._agents[name] in place of .get: a miss raises.
get_agent_subscript(self, agent_name) ==
    IF ~self.initialized
    THEN [exc |-> "RuntimeError", ret |-> None]
    ELSE IF DictHas(self.agents, lower(agent_name))
    THEN [exc |-> "", ret |-> DictGet(self.agents, lower(agent_name))]
    ELSE [exc |-> "KeyError", ret |-> None]

\* AgentRegistry.get_agent
get_agent(self, agent_name) ==
    IF ~self.initialized
    THEN [exc |-> "RuntimeError", ret |-> None]
    ELSE [exc |-> "", ret |-> DictGet(self.agents, lower(agent_name))]

\* AgentRegistry.get_auditor, get_fixer, get_judge
get_auditor(self) == get_agent(self, auditor)

get_fixer(self) == get_agent(self, fixer)

\* get_judge looking up the fixer's name.
get_judge_as_fixer(self) == get_agent(self, fixer)

get_judge(self) == get_agent(self, judge)

\* AgentRegistry.list_agents
list_agents(self) == DictKeys(self.agents)

\* AgentRegistry.is_initialized
is_initialized(self) == self.initialized

\* shutdown that clears the mapping and leaves the flag set.
shutdown_keeps_flag(self, logOk) ==
    IF ~self.initialized
    THEN [self |-> self, exc |-> "", calls |-> <<>>]
    ELSE [self |-> [agents |-> <<>>, initialized |-> TRUE],
          exc |-> IF logOk THEN "" ELSE "LogError",
          calls |-> <<Called("log_experiment", "ANALYSIS", ~logOk)>>]

\* shutdown that logs before it clears: a log call that raises leaves the
\* registry as it was.
shutdown_logs_first(self, logOk) ==
    IF ~self.initialized
    THEN [self |-> self, exc |-> "", calls |-> <<>>]
    ELSE [self |-> IF logOk THEN [agents |-> <<>>, initialized |-> FALSE] ELSE self,
          exc |-> IF logOk THEN "" ELSE "LogError",
          calls |-> <<Called("log_experiment", "ANALYSIS", ~logOk)>>]

\* shutdown without the not-initialized check.
shutdown_no_skip(self, logOk) ==
    [self |-> [agents |-> <<>>, initialized |-> FALSE],
     exc |-> IF logOk THEN "" ELSE "LogError",
     calls |-> <<Called("log_experiment", "ANALYSIS", ~logOk)>>]

\* AgentRegistry.shutdown
shutdown(self, logOk) ==
    IF ~self.initialized
    THEN [self |-> self, exc |-> "", calls |-> <<>>]
    ELSE [self |-> [agents |-> <<>>, initialized |-> FALSE],
          exc |-> IF logOk THEN "" ELSE "LogError",
          calls |-> <<Called("log_experiment", "ANALYSIS", ~logOk)>>]

\* get_registry that returns a new registry without storing it in the global.
get_registry_not_stored(global, h) ==
    IF global = <<>>
    THEN [global |-> <<>>, heap |-> Append(h, NewAgentRegistry), ret |-> Len(h) + 1]
    ELSE [global |-> global, heap |-> h, ret |-> global[1]]

\* get_registry: the global after the call, the heap after the call, and the
\* reference returned.
get_registry(global, h) ==
    IF global = <<>>
    THEN [global |-> <<Len(h) + 1>>, heap |-> Append(h, NewAgentRegistry),
          ret |-> Len(h) + 1]
    ELSE [global |-> global, heap |-> h, ret |-> global[1]]

\* ---------------------------------------------------------------- calls

\* The record of a call: the operation, the registry it was called on (0 for
\* none), the name passed, the exception propagated ("" when it returned),
\* the values returned and the collaborators called, in order.
Call(op, reg, name, exc, agent, names, flag, calls) ==
    [op |-> op, reg |-> reg, name |-> name, exc |-> exc, agent |-> agent,
     names |-> names, flag |-> flag, calls |-> calls]

Registries == 1..Len(heap)

\* The values GOOGLE_API_KEY takes.
EnvValues == {<<>>, <<"">>, <<"key">>}

Init ==
    /\ heap = <<>>
    /\ registry_instance = <<>>
    /\ environ \in EnvValues
    /\ nextId = 0
    /\ lastOp = Call("start", 0, <<>>, "", None, <<>>, FALSE, <<>>)

\* The caller changes GOOGLE_API_KEY.
SetEnv(v) ==
    /\ environ # v
    /\ environ' = v
    /\ lastOp' = Call("setenv", 0, <<>>, "", None, <<>>, FALSE, <<>>)
    /\ UNCHANGED <<heap, registry_instance, nextId>>

\* The caller constructs a registry of its own: AgentRegistry().
Construct ==
    /\ Len(heap) < MaxRegistries
    /\ heap' = Append(heap, NewAgentRegistry)
    /\ lastOp' = Call("AgentRegistry", Len(heap) + 1, <<>>, "", None, <<>>, FALSE, <<>>)
    /\ UNCHANGED <<registry_instance, environ, nextId>>

Initialize(r) ==
    \E ctorFail \in 0..Len(AgentClasses), logOk1 \in BOOLEAN, logOk2 \in BOOLEAN :
        LET res == initialize(heap[r], environ, ctorFail, logOk1, logOk2, nextId)
        IN  /\ nextId + res.made <= MaxInstances
            /\ heap' = [heap EXCEPT ![r] = res.self]
            /\ nextId' = nextId + res.made
            /\ lastOp' = Call("initialize", r, <<>>, res.exc, None, <<>>, FALSE, res.calls)
            /\ UNCHANGED <<registry_instance, environ>>

Shutdown(r) ==
    \E logOk \in BOOLEAN :
        LET res == shutdown(heap[r], logOk)
        IN  /\ heap' = [heap EXCEPT ![r] = res.self]
            /\ lastOp' = Call("shutdown", r, <<>>, res.exc, None, <<>>, FALSE, res.calls)
            /\ UNCHANGED <<registry_instance, environ, nextId>>

\* GetAgent with self._agents.setdefault(name, None) in place of .get: a miss
\* binds the name.
GetAgent_setdefault(r) ==
    \E name \in LookupNames :
        LET res == get_agent(heap[r], name)
        IN  /\ lastOp' = Call("get_agent", r, name, res.exc, res.ret, <<>>, FALSE, <<>>)
            /\ heap' = IF res.exc = "" /\ res.ret = None
                       THEN [heap EXCEPT ![r].agents = DictSet(@, lower(name), None)]
                       ELSE heap
            /\ UNCHANGED <<registry_instance, environ, nextId>>

GetAgent(r) ==
    \E name \in LookupNames :
        LET res == get_agent(heap[r], name)
        IN  /\ lastOp' = Call("get_agent", r, name, res.exc, res.ret, <<>>, FALSE, <<>>)
            /\ UNCHANGED <<heap, registry_instance, environ, nextId>>

GetAuditor(r) ==
    LET res == get_auditor(heap[r])
    IN  /\ lastOp' = Call("get_auditor", r, <<>>, res.exc, res.ret, <<>>, FALSE, <<>>)
        /\ UNCHANGED <<heap, registry_instance, environ, nextId>>

GetFixer(r) ==
    LET res == get_fixer(heap[r])
    IN  /\ lastOp' = Call("get_fixer", r, <<>>, res.exc, res.ret, <<>>, FALSE, <<>>)
        /\ UNCHANGED <<heap, registry_instance, environ, nextId>>

GetJudge(r) ==
    LET res == get_judge(heap[r])
    IN  /\ lastOp' = Call("get_judge", r, <<>>, res.exc, res.ret, <<>>, FALSE, <<>>)
        /\ UNCHANGED <<heap, registry_instance, environ, nextId>>

ListAgents(r) ==
    /\ lastOp' = Call("list_agents", r, <<>>, "", None, list_agents(heap[r]), FALSE, <<>>)
    /\ UNCHANGED <<heap, registry_instance, environ, nextId>>

IsInitialized(r) ==
    /\ lastOp' = Call("is_initialized", r, <<>>, "", None, <<>>, is_initialized(heap[r]), <<>>)
    /\ UNCHANGED <<heap, registry_instance, environ, nextId>>

GetRegistry ==
    LET res == get_registry(registry_instance, heap)
    IN  /\ Len(res.heap) <= MaxRegistries
        /\ heap' = res.heap
        /\ registry_instance' = res.global
        /\ lastOp' = Call("get_registry", res.ret, <<>>, "", None, <<>>, FALSE, <<>>)
        /\ UNCHANGED <<environ, nextId>>

\* get_auditor_agent, get_fixer_agent, get_judge_agent
GetAuditorAgent ==
    LET got == get_registry(registry_instance, heap)
        res == get_auditor(got.heap[got.ret])
    IN  /\ Len(got.heap) <= MaxRegistries
        /\ heap' = got.heap
        /\ registry_instance' = got.global
        /\ lastOp' = Call("get_auditor_agent", got.ret, <<>>, res.exc, res.ret, <<>>, FALSE, <<>>)
        /\ UNCHANGED <<environ, nextId>>

\* get_fixer_agent delegating to get_judge.
GetFixerAgent_judge ==
    LET got == get_registry(registry_instance, heap)
        res == get_judge(got.heap[got.ret])
    IN  /\ Len(got.heap) <= MaxRegistries
        /\ heap' = got.heap
        /\ registry_instance' = got.global
        /\ lastOp' = Call("get_fixer_agent", got.ret, <<>>, res.exc, res.ret, <<>>, FALSE, <<>>)
        /\ UNCHANGED <<environ, nextId>>

GetFixerAgent ==
    LET got == get_registry(registry_instance, heap)
        res == get_fixer(got.heap[got.ret])
    IN  /\ Len(got.heap) <= MaxRegistries
        /\ heap' = got.heap
        /\ registry_instance' = got.global
        /\ lastOp' = Call("get_fixer_agent", got.ret, <<>>, res.exc, res.ret, <<>>, FALSE, <<>>)
        /\ UNCHANGED <<environ, nextId>>

GetJudgeAgent ==
    LET got == get_registry(registry_instance, heap)
        res == get_judge(got.heap[got.ret])
    IN  /\ Len(got.heap) <= MaxRegistries
        /\ heap' = got.heap
        /\ registry_instance' = got.global
        /\ lastOp' = Call("get_judge_agent", got.ret, <<>>, res.exc, res.ret, <<>>, FALSE, <<>>)
        /\ UNCHANGED <<environ, nextId>>

Next ==
    \/ \E v \in EnvValues : SetEnv(v)
    \/ Construct
    \/ GetRegistry
    \/ GetAuditorAgent
    \/ GetFixerAgent
    \/ GetJudgeAgent
    \/ \E r \in Registries : Initialize(r)
    \/ \E r \in Registries : Shutdown(r)
    \/ \E r \in Registries : GetAgent(r)
    \/ \E r \in Registries : GetAuditor(r)
    \/ \E r \in Registries : GetFixer(r)
    \/ \E r \in Registries : GetJudge(r)
    \/ \E r \in Registries : ListAgents(r)
    \/ \E r \in Registries : IsInitialized(r)

Spec == Init /\ [][Next]_vars

\* ---------------------------------------------------------------- properties

\* What the properties read off a call record.
GetterOps == {"get_agent", "get_auditor", "get_fixer", "get_judge"}

CtorNames == {"AuditorAgent", "FixerAgent", "JudgeAgent"}

IsCtorCall(c) == c.fn \in CtorNames

IsLogCall(c) == c.fn = "log_experiment"

CtorCalls(calls) == SelectSeq(calls, IsCtorCall)

LogCalls(calls) == SelectSeq(calls, IsLogCall)

\* The step is a call of initialize() that finds the flag false.
InitializeRuns == lastOp'.op = "initialize" /\ ~heap[lastOp'.reg].initialized

\* The step is a call of initialize() in which a constructor raised.
CtorRaised ==
    /\ lastOp'.op = "initialize"
    /\ \E i \in 1..Len(lastOp'.calls) :
           IsCtorCall(lastOp'.calls[i]) /\ lastOp'.calls[i].raised

\* C1: a lookup (get_agent, get_auditor, get_fixer, get_judge) raises the
\* not-initialized error (RuntimeError) exactly when the registry's flag is
\* false at the moment of the call, whatever the name; it raises nothing else.
C1_NotInitializedErrorIffFlagFalse ==
    [][lastOp'.op \in GetterOps =>
          /\ lastOp'.exc = "RuntimeError" <=> ~heap[lastOp'.reg].initialized
          /\ lastOp'.exc \in {"", "RuntimeError"}]_vars

\* C1 witness: a lookup raised on a registry whose flag is false although a
\* failed initialize() left agents in its mapping.
C1_Witness ==
    /\ lastOp.op \in GetterOps
    /\ lastOp.exc = "RuntimeError"
    /\ heap[lastOp.reg].agents # <<>>

\* C2 (as claimed): whenever initialize() propagates an error, the flag is
\* false after the call.
C2_FailedInitializeLeavesFlagFalse ==
    (lastOp.op = "initialize" /\ lastOp.exc # "") => ~heap[lastOp.reg].initialized

\* C3 (as claimed): whenever the flag is false the mapping is empty and
\* list_agents() returns the empty sequence.
C3_FlagFalseMappingEmpty ==
    \A r \in Registries :
        ~heap[r].initialized => heap[r].agents = <<>> /\ list_agents(heap[r]) = <<>>

\* C4: whenever the flag is true, list_agents() returns auditor, fixer, judge
\* in that order and each name is bound to one instance of its class.
C4_FlagTrueThreeAgentsInOrder ==
    \A r \in Registries :
        heap[r].initialized =>
            /\ list_agents(heap[r]) = <<auditor, fixer, judge>>
            /\ \A i \in 1..3 :
                   /\ heap[r].agents[i].val.cls
                          = <<"AuditorAgent", "FixerAgent", "JudgeAgent">>[i]
                   /\ heap[r].agents[i].val.id \in 1..nextId

\* C4 witness: an initialized registry whose auditor is the second agent
\* object ever constructed: the first initialize() stopped at the fixer, the
\* next one succeeded; list_agents() has just returned the three names.
C4_Witness ==
    /\ lastOp.op = "list_agents"
    /\ lastOp.names = <<auditor, fixer, judge>>
    /\ heap[lastOp.reg].initialized
    /\ DictGet(heap[lastOp.reg].agents, auditor).id = 2

\* C5 (as claimed): after any call of shutdown() the flag is false and
\* list_agents() returns the empty sequence.
C5_AfterShutdownEmpty ==
    lastOp.op = "shutdown" =>
        ~heap[lastOp.reg].initialized /\ list_agents(heap[lastOp.reg]) = <<>>

\* C6: initialize() on a registry whose flag is true returns without raising,
\* calls no collaborator (no getenv, no constructor, no log_experiment) and
\* leaves mapping and flag as they were.
C6_InitializeTwiceSkips ==
    [][(lastOp'.op = "initialize" /\ heap[lastOp'.reg].initialized) =>
          /\ lastOp'.exc = ""
          /\ lastOp'.calls = <<>>
          /\ heap' = heap
          /\ nextId' = nextId]_vars

\* C6 witness: initialize() was skipped on an initialized registry while the
\* credential is unset.
C6_Witness ==
    /\ lastOp.op = "initialize"
    /\ lastOp.calls = <<>>
    /\ heap[lastOp.reg].initialized
    /\ environ = <<>>

\* What C7 says of every initialize() that runs with the credential unset or
\* empty, but for the error propagated: no constructor is called, the mapping
\* and the flag are unchanged, and log_experiment is called once, with DEBUG.
C7_NothingConstructedOneFailureEntry ==
    /\ CtorCalls(lastOp'.calls) = <<>>
    /\ nextId' = nextId
    /\ heap' = heap
    /\ ~heap'[lastOp'.reg].initialized
    /\ Len(LogCalls(lastOp'.calls)) = 1
    /\ lastOp'.calls[Len(lastOp'.calls)].fn = "log_experiment"
    /\ lastOp'.calls[Len(lastOp'.calls)].action = "DEBUG"

\* C7 (as claimed): with the credential absent initialize() fails with the
\* configuration error (ValueError), constructs nothing, changes nothing and
\* emits one failure entry.
C7_MissingCredentialConfigurationError ==
    [][(InitializeRuns /\ environ \in {<<>>, <<"">>}) =>
          /\ lastOp'.exc = "ValueError"
          /\ C7_NothingConstructedOneFailureEntry]_vars

\* C7 (amended): as claimed, except that the error propagated is the
\* configuration error only if the failure log call returns; if that call
\* raises, its error propagates instead.
C7_MissingCredentialFails ==
    [][(InitializeRuns /\ environ \in {<<>>, <<"">>}) =>
          /\ lastOp'.exc = IF lastOp'.calls[Len(lastOp'.calls)].raised
                           THEN "LogError" ELSE "ValueError"
          /\ C7_NothingConstructedOneFailureEntry]_vars

\* C7 witness: initialize() failed with the configuration error on an empty
\* credential, on a registry whose mapping an earlier failure left non-empty.
C7_Witness ==
    /\ lastOp.op = "initialize"
    /\ lastOp.exc = "ValueError"
    /\ environ = <<"">>
    /\ heap[lastOp.reg].agents # <<>>

\* What C8 says of every initialize() in which the k-th constructor raises,
\* but for the error propagated and the mapping: the constructors called are
\* the first k in the order auditor, fixer, judge, and the flag stays false.
C8_FixedOrderNoLaterConstructor(k) ==
    /\ k \in 1..3
    /\ \A i \in 1..k :
           /\ CtorCalls(lastOp'.calls)[i].fn
                  = <<"AuditorAgent", "FixerAgent", "JudgeAgent">>[i]
           /\ CtorCalls(lastOp'.calls)[i].raised = (i = k)
    /\ nextId' = nextId + (k - 1)
    /\ ~heap'[lastOp'.reg].initialized

\* C8 (as claimed): the error of the k-th constructor is the one propagated,
\* and the mapping then holds exactly the agents constructed before it.
C8_ConstructorFailureLeavesPrefix ==
    [][CtorRaised =>
          LET k == Len(CtorCalls(lastOp'.calls))
          IN  /\ C8_FixedOrderNoLaterConstructor(k)
              /\ lastOp'.exc
                     = <<"AuditorAgentError", "FixerAgentError", "JudgeAgentError">>[k]
              /\ DictKeys(heap'[lastOp'.reg].agents)
                     = SubSeq(<<auditor, fixer, judge>>, 1, k - 1)]_vars

\* C8 (amended): the error of the k-th constructor is propagated unless the
\* failure log call raises, whose error then propagates instead; and the
\* mapping is the one before the call with the names of the agents
\* constructed before the failing one bound to the new instances: names bound
\* by an earlier failed initialize() stay bound.
C8_ConstructorFailureNoRollback ==
    [][CtorRaised =>
          LET k == Len(CtorCalls(lastOp'.calls))
              before == heap[lastOp'.reg].agents
              after == heap'[lastOp'.reg].agents
              names == <<auditor, fixer, judge>>
          IN  /\ C8_FixedOrderNoLaterConstructor(k)
              /\ lastOp'.exc
                     = IF lastOp'.calls[Len(lastOp'.calls)].raised
                       THEN "LogError"
                       ELSE <<"AuditorAgentError", "FixerAgentError", "JudgeAgentError">>[k]
              /\ Len(LogCalls(lastOp'.calls)) = 1
              /\ lastOp'.calls[Len(lastOp'.calls)].action = "DEBUG"
              /\ DictKeys(after)
                     = SubSeq(names, 1, IF Len(before) > k - 1 THEN Len(before) ELSE k - 1)
              /\ \A i \in 1..3 :
                     DictGet(after, names[i])
                         = IF i < k
                           THEN [cls |-> <<"AuditorAgent", "FixerAgent", "JudgeAgent">>[i],
                                 id |-> nextId + i]
                           ELSE DictGet(before, names[i])]_vars

\* C8 witness: the auditor's constructor raised in an initialize() retried on
\* a registry that still holds the auditor and the fixer of an earlier
\* failed initialize().
C8_Witness ==
    /\ lastOp.op = "initialize"
    /\ lastOp.exc = "AuditorAgentError"
    /\ DictKeys(heap[lastOp.reg].agents) = <<auditor, fixer>>

\* C9 (as claimed): log_experiment is called once in an initialize() that
\* runs (ANALYSIS when it returns, DEBUG when it fails), once in a shutdown()
\* of an initialized registry, and in no other call.
C9_OneLogCallPerTransition ==
    [][LET logged == LogCalls(lastOp'.calls)
       IN  IF lastOp'.op = "initialize" /\ ~heap[lastOp'.reg].initialized
           THEN /\ Len(logged) = 1
                /\ logged[1].action = IF lastOp'.exc = "" THEN "ANALYSIS" ELSE "DEBUG"
           ELSE IF lastOp'.op = "shutdown" /\ heap[lastOp'.reg].initialized
           THEN Len(logged) = 1 /\ logged[1].action = "ANALYSIS"
           ELSE logged = <<>>]_vars

\* C10: shutdown() on a registry whose flag is false returns without raising,
\* calls no collaborator and leaves mapping and flag as they were; and after
\* any shutdown() the flag is false, so every shutdown() that follows one
\* directly is such a call.
C10_ShutdownUninitializedSkips ==
    [][lastOp'.op = "shutdown" =>
          /\ ~heap'[lastOp'.reg].initialized
          /\ ~heap[lastOp'.reg].initialized =>
                 /\ lastOp'.exc = ""
                 /\ lastOp'.calls = <<>>
                 /\ heap' = heap]_vars

\* C10 witness: shutdown() was skipped on a registry whose flag is false and
\* whose mapping, left by a failed initialize(), is still there.
C10_Witness ==
    /\ lastOp.op = "shutdown"
    /\ lastOp.calls = <<>>
    /\ heap[lastOp.reg].agents # <<>>

\* C11: the lookups and queries (get_agent, get_auditor, get_fixer, get_judge,
\* list_agents, is_initialized) leave every registry's mapping and flag as
\* they were, whether they return an agent, return None or raise; they
\* construct no agent and do not touch the shared handle.
C11_LookupsChangeNothing ==
    [][lastOp'.op \in GetterOps \cup {"list_agents", "is_initialized"} =>
          /\ heap' = heap
          /\ registry_instance' = registry_instance
          /\ nextId' = nextId
          /\ lastOp'.calls = <<>>]_vars

\* C11 witness: get_agent has just returned None for an unknown name on an
\* initialized registry, whose mapping still holds the three names.
C11_Witness ==
    /\ lastOp.op = "get_agent"
    /\ lastOp.exc = ""
    /\ lastOp.agent = None
    /\ heap[lastOp.reg].initialized
    /\ DictKeys(heap[lastOp.reg].agents) = <<auditor, fixer, judge>>

\* C12: get_agent with a name that is none of auditor, fixer, judge in any
\* letter case returns None without raising on an initialized registry, and
\* raises the not-initialized error on an uninitialized one.
C12_UnknownNameAbsentNotError ==
    (lastOp.op = "get_agent" /\ lastOp.name \in {nonexistent, audit, <<>>}) =>
        /\ lastOp.agent = None
        /\ lastOp.exc = IF heap[lastOp.reg].initialized THEN "" ELSE "RuntimeError"

\* C12 witness: get_agent("audit") returned None on an initialized registry.
C12_Witness ==
    /\ lastOp.op = "get_agent"
    /\ lastOp.name = audit
    /\ lastOp.exc = ""
    /\ lastOp.agent = None
    /\ heap[lastOp.reg].initialized

\* The lower-case name each looked-up spelling of a bound name stands for.
C13_Canonical ==
    [n \in {auditor, AUDITOR, Auditor, fixer, FIXER, judge, Judge} |->
        IF n \in {auditor, AUDITOR, Auditor} THEN auditor
        ELSE IF n \in {fixer, FIXER} THEN fixer
        ELSE judge]

\* C13: on an initialized registry get_agent with any spelling of auditor,
\* fixer or judge returns the instance bound to the lower-case name, which
\* is the instance the typed getter returns, and never None.
C13_LookupIgnoresCase ==
    (lastOp.op = "get_agent" /\ lastOp.name \in DOMAIN C13_Canonical
                             /\ heap[lastOp.reg].initialized) =>
        LET self == heap[lastOp.reg]
            key == C13_Canonical[lastOp.name]
            bound == (CHOOSE i \in 1..Len(self.agents) : self.agents[i].key = key)
            typed == IF key = auditor THEN get_auditor(self)
                     ELSE IF key = fixer THEN get_fixer(self)
                     ELSE get_judge(self)
        IN  /\ lastOp.exc = ""
            /\ lastOp.agent = self.agents[bound].val
            /\ lastOp.agent = typed.ret
            /\ lastOp.agent # None

\* C13 witness: get_agent("AUDITOR") returned the auditor instance.
C13_Witness ==
    /\ lastOp.op = "get_agent"
    /\ lastOp.name = AUDITOR
    /\ lastOp.agent.cls = "AuditorAgent"

\* C14: the shared handle, once set, is never replaced or cleared by any
\* operation; get_registry() returns the registry the handle refers to, after
\* creating it uninitialized with an empty mapping if the handle was None, and
\* otherwise changes no registry; it calls no collaborator and constructs no
\* agent.
C14_SharedRegistryCreatedOnce ==
    [][/\ registry_instance # <<>> => registry_instance' = registry_instance
       /\ lastOp'.op = "get_registry" =>
              /\ registry_instance' = <<lastOp'.reg>>
              /\ heap' = IF registry_instance = <<>>
                         THEN Append(heap, [agents |-> <<>>, initialized |-> FALSE])
                         ELSE heap
              /\ nextId' = nextId
              /\ lastOp'.calls = <<>>]_vars

\* C14 witness: get_registry() has just returned the shared registry, which is
\* initialized: a later call, by which the registry was left as it was.
C14_Witness ==
    /\ lastOp.op = "get_registry"
    /\ registry_instance = <<lastOp.reg>>
    /\ heap[lastOp.reg].initialized

\* C15 (as claimed): a name bound to an instance stays bound to that instance
\* until the whole mapping is cleared; no operation rebinds a bound name.
C15_BoundNameNeverRebound ==
    [][\A r \in Registries :
           \A i \in 1..Len(heap[r].agents) :
               \/ heap'[r].agents = <<>>
               \/ DictGet(heap'[r].agents, heap[r].agents[i].key)
                      = heap[r].agents[i].val]_vars

\* C16: from every reachable state of a registry, shutdown() followed by an
\* initialize() with the credential present and every collaborator
\* succeeding returns normally and leaves the registry initialized with
\* exactly auditor, fixer, judge bound to the newly constructed instances;
\* get_fixer() then returns the bound fixer, and after one more shutdown()
\* get_fixer() raises the not-initialized error.
C16_ReusableFromEveryState ==
    \A r \in Registries :
        \A logOk1 \in BOOLEAN, logOk2 \in BOOLEAN :
            LET down == shutdown(heap[r], logOk1).self
                up == initialize(down, <<"key">>, 0, TRUE, TRUE, nextId)
                again == shutdown(up.self, logOk2).self
            IN  /\ ~down.initialized
                /\ up.exc = ""
                /\ up.self.initialized
                /\ list_agents(up.self) = <<auditor, fixer, judge>>
                /\ up.self.agents[2].val = [cls |-> "FixerAgent", id |-> nextId + 2]
                /\ get_fixer(up.self) = [exc |-> "", ret |-> up.self.agents[2].val]
                /\ ~again.initialized
                /\ get_fixer(again).exc = "RuntimeError"

\* C16 witness: get_fixer() has just returned the fixer of a registry that
\* was initialized after three agents had been constructed before: the
\* fixer is the fifth agent object.
C16_Witness ==
    /\ lastOp.op = "get_fixer"
    /\ lastOp.exc = ""
    /\ lastOp.agent = [cls |-> "FixerAgent", id |-> 5]
    /\ heap[lastOp.reg].initialized

\* C17 (as claimed): each constructor produces at most one instance per
\* registry over its whole life. Hence a constructor is never called for a
\* name that is bound, and there are never more than three agent objects
\* per registry.
C17_OneInstancePerAgentForLife ==
    [][lastOp'.op = "initialize" =>
          /\ nextId' <= 3 * Len(heap')
          /\ \A i \in 1..Len(CtorCalls(lastOp'.calls)) :
                 ~CtorCalls(lastOp'.calls)[i].raised =>
                     ~DictHas(heap[lastOp'.reg].agents, <<auditor, fixer, judge>>[i])]_vars

\* The shared registry after a step that has set the handle.
C18_Shared == heap'[registry_instance'[1]]

\* C18: get_auditor_agent, get_fixer_agent and get_judge_agent create the
\* shared registry, uninitialized, if the handle is None and change nothing
\* otherwise; each raises the not-initialized error exactly when the shared
\* registry is uninitialized, and otherwise returns the instance bound to
\* auditor, fixer, judge respectively in the shared registry.
C18_AccessorsDelegateToSharedRegistry ==
    [][lastOp'.op \in {"get_auditor_agent", "get_fixer_agent", "get_judge_agent"} =>
          /\ registry_instance' = <<lastOp'.reg>>
          /\ registry_instance # <<>> => registry_instance' = registry_instance
          /\ heap' = IF registry_instance = <<>>
                     THEN Append(heap, [agents |-> <<>>, initialized |-> FALSE])
                     ELSE heap
          /\ nextId' = nextId
          /\ lastOp'.calls = <<>>
          /\ lastOp'.exc = IF C18_Shared.initialized THEN "" ELSE "RuntimeError"
          /\ lastOp'.agent
                 = IF ~C18_Shared.initialized THEN None
                   ELSE IF lastOp'.op = "get_auditor_agent"
                   THEN DictGet(C18_Shared.agents, auditor)
                   ELSE IF lastOp'.op = "get_fixer_agent"
                   THEN DictGet(C18_Shared.agents, fixer)
                   ELSE DictGet(C18_Shared.agents, judge)
          /\ C18_Shared.initialized =>
                 lastOp'.agent.cls
                     = IF lastOp'.op = "get_auditor_agent" THEN "AuditorAgent"
                       ELSE IF lastOp'.op = "get_fixer_agent" THEN "FixerAgent"
                       ELSE "JudgeAgent"]_vars

\* C18 witness: get_fixer_agent() has just returned the fixer bound in the
\* initialized shared registry.
C18_Witness ==
    /\ lastOp.op = "get_fixer_agent"
    /\ lastOp.exc = ""
    /\ registry_instance = <<lastOp.reg>>
    /\ lastOp.agent = DictGet(heap[lastOp.reg].agents, fixer)
    /\ lastOp.agent.cls = "FixerAgent"

\* C19: shutdown() on an initialized registry leaves it uninitialized with an
\* empty mapping and calls log_experiment once, whether that call returns or
\* raises; when it raises, its error propagates; and a shutdown() called
\* next returns without calling anything or changing anything.
C19_ShutdownClearsBeforeLogging ==
    [][(lastOp'.op = "shutdown" /\ heap[lastOp'.reg].initialized) =>
          /\ heap'[lastOp'.reg] = [agents |-> <<>>, initialized |-> FALSE]
          /\ Len(lastOp'.calls) = 1
          /\ lastOp'.calls[1].fn = "log_experiment"
          /\ lastOp'.calls[1].action = "ANALYSIS"
          /\ lastOp'.exc = IF lastOp'.calls[1].raised THEN "LogError" ELSE ""
          /\ \A logOk \in BOOLEAN :
                 shutdown(heap'[lastOp'.reg], logOk)
                     = [self |-> heap'[lastOp'.reg], exc |-> "", calls |-> <<>>]]_vars

\* C19 witness: a shutdown() of an initialized registry has just propagated
\* the log call's error, and the registry is uninitialized and empty.
C19_Witness ==
    /\ lastOp.op = "shutdown"
    /\ lastOp.exc = "LogError"
    /\ heap[lastOp.reg] = [agents |-> <<>>, initialized |-> FALSE]

\* C20: while a registry is initialized, get_auditor(), get_fixer() and
\* get_judge() return without raising three instances, none of them None and
\* no two the same; and as long as it stays initialized each getter returns
\* the instance it returned before.
C20_GettersStableWhileInitialized ==
    [][\A r \in Registries :
           heap[r].initialized =>
               LET a == get_auditor(heap[r])
                   f == get_fixer(heap[r])
                   j == get_judge(heap[r])
               IN  /\ a.exc = "" /\ f.exc = "" /\ j.exc = ""
                   /\ a.ret # None /\ f.ret # None /\ j.ret # None
                   /\ a.ret # f.ret /\ a.ret # j.ret /\ f.ret # j.ret
                   /\ a.ret.id # f.ret.id /\ a.ret.id # j.ret.id /\ f.ret.id # j.ret.id
                   /\ heap'[r].initialized =>
                          /\ get_auditor(heap'[r]) = a
                          /\ get_fixer(heap'[r]) = f
                          /\ get_judge(heap'[r]) = j]_vars

\* C20 witness: get_judge() has just returned the judge on an initialized
\* registry, after get_agent and the other getters could run on it.
C20_Witness ==
    /\ lastOp.op = "get_judge"
    /\ lastOp.exc = ""
    /\ lastOp.agent.cls = "JudgeAgent"
    /\ heap[lastOp.reg].initialized

====
